---- MODULE Spec2Model ----
(***************************************************************************)
(* Model of src/server.js: an Express application over one SQLite file.    *)
(* The state is the four tables, the requests whose handler is suspended   *)
(* at an await, and the outcome of the request that completed last.        *)
(* Request fields are present and of the type the schema names; createdAt  *)
(* columns, which no statement reads, are left out of the rows.            *)
(***************************************************************************)
EXTENDS Integers, Sequences, FiniteSets, Bags, TLC

VARIABLES users, suppliers, rfps, bids, inflight, last, issued, created

vars == <<users, suppliers, rfps, bids, inflight, last, issued, created>>

(***************************************************************************)
(* Bounds of the model: rows in the database, handlers suspended at once.  *)
(***************************************************************************)
MaxRows == 2
MaxInFlight == 2

(***************************************************************************)
(* Values of request fields.                                               *)
(***************************************************************************)
Names == {"n"}
Emails == {"a@x", "b@x"}

\* A password is its first 72 bytes (head), which is all bcrypt reads of the
\* data it hashes or compares, and the bytes after them (tail).
Passwords ==
  { [head |-> "p", tail |-> ""], [head |-> "p", tail |-> "x"],
    [head |-> "q", tail |-> ""] }

Salts == {"s1"}

RegNumbers == {"r1"}
Addresses == {"addr"}
Titles == {"t1", "t2"}
Descriptions == {"d"}
Amounts == {50, 100}
Documents == {"doc"}
RfpIds == {1, 2}
SupplierIds == {1}

NoErr == "ok"

(***************************************************************************)
(* bcrypt.hash(password, 10) and bcrypt.compare(password, hash).  The hash *)
(* carries the salt drawn for the call and the digest of the bytes read.   *)
(***************************************************************************)
BcryptInput(password) == password.head

BcryptHash(password, salt) == [salt |-> salt, digest |-> BcryptInput(password)]

BcryptCompare(password, hash) == BcryptHash(password, hash.salt) = hash

(***************************************************************************)
(* The tables of initDb.  A table is the sequence of its rows in rowid     *)
(* order; no statement of the program deletes, so AUTOINCREMENT gives row  *)
(* i the id i.                                                             *)
(***************************************************************************)
Rows(tbl) == {tbl[i] : i \in 1..Len(tbl)}

Min(a, b) == IF a < b THEN a ELSE b

RowCount == Len(users) + Len(suppliers) + Len(rfps) + Len(bids)

\* the database is opened with no PRAGMA foreign_keys, so SQLite parses the
\* FOREIGN KEY clauses of bids and does not enforce them
ForeignKeysEnforced == FALSE

(***************************************************************************)
(* The statements the handlers run.  An INSERT gives the table after it,   *)
(* the error (NoErr when there is none) and the new row's id.              *)
(***************************************************************************)
\* email TEXT UNIQUE
InsertUserNoUnique(tbl, name, email, password) ==
  [err |-> NoErr,
   tbl |-> Append(tbl, [id |-> Len(tbl) + 1, name |-> name, email |-> email,
                        password |-> password]),
   lastID |-> Len(tbl) + 1]

InsertUser(tbl, name, email, password) ==
  IF \A r \in Rows(tbl) : r.email # email
    THEN [err |-> NoErr,
          tbl |-> Append(tbl, [id |-> Len(tbl) + 1, name |-> name, email |-> email,
                               password |-> password]),
          lastID |-> Len(tbl) + 1]
    ELSE [err |-> "SQLITE_CONSTRAINT: UNIQUE constraint failed: users.email",
          tbl |-> tbl, lastID |-> 0]

\* SELECT * FROM users WHERE email = ?   (db.get: the first row, if any)
SelectUserByEmail(tbl, email) ==
  LET rows == SelectSeq(tbl, LAMBDA r : r.email = email)
  IN  SubSeq(rows, 1, Min(1, Len(rows)))

\* registrationNumber TEXT UNIQUE
InsertSupplier(tbl, name, registrationNumber, address) ==
  IF \A r \in Rows(tbl) : r.registrationNumber # registrationNumber
    THEN [err |-> NoErr,
          tbl |-> Append(tbl, [id |-> Len(tbl) + 1, name |-> name,
                               registrationNumber |-> registrationNumber,
                               address |-> address]),
          lastID |-> Len(tbl) + 1]
    ELSE [err |-> "SQLITE_CONSTRAINT: UNIQUE constraint failed: suppliers.registrationNumber",
          tbl |-> tbl, lastID |-> 0]

InsertRfp(tbl, title, description) ==
  [err |-> NoErr,
   tbl |-> Append(tbl, [id |-> Len(tbl) + 1, title |-> title,
                        description |-> description]),
   lastID |-> Len(tbl) + 1]

\* SELECT * FROM rfps
SelectAllRfpsLimitOne(tbl) == SubSeq(tbl, 1, Min(1, Len(tbl)))

SelectAllRfps(tbl) == tbl

\* status TEXT DEFAULT 'pending'; FOREIGN KEY (rfpId), FOREIGN KEY (supplierId)
InsertBid(tbl, rfpId, supplierId, amount, documents) ==
  IF ForeignKeysEnforced /\ ~ ( /\ \E r \in Rows(rfps) : r.id = rfpId
                                /\ \E r \in Rows(suppliers) : r.id = supplierId )
    THEN [err |-> "SQLITE_CONSTRAINT: FOREIGN KEY constraint failed",
          tbl |-> tbl, lastID |-> 0]
    ELSE [err |-> NoErr,
          tbl |-> Append(tbl, [id |-> Len(tbl) + 1, rfpId |-> rfpId,
                               supplierId |-> supplierId, amount |-> amount,
                               documents |-> documents, status |-> "pending"]),
          lastID |-> Len(tbl) + 1]

\* SELECT * FROM bids WHERE rfpId = ?
SelectBidsByRfp(tbl, rfpId) == SelectSeq(tbl, LAMBDA r : r.rfpId = rfpId)

\* UPDATE bids SET status = 'evaluated' WHERE rfpId = ?
UpdateStatusAllRfps(tbl, rfpId) ==
  [i \in 1..Len(tbl) |-> [tbl[i] EXCEPT !.status = "evaluated"]]

UpdateStatusFirstOnly(tbl, rfpId) ==
  LET hit == {i \in 1..Len(tbl) : tbl[i].rfpId = rfpId}
  IN  [i \in 1..Len(tbl) |->
         IF i \in hit /\ \A j \in hit : i <= j
           THEN [tbl[i] EXCEPT !.status = "evaluated"] ELSE tbl[i]]

UpdateStatus(tbl, rfpId) ==
  [i \in 1..Len(tbl) |->
     IF tbl[i].rfpId = rfpId THEN [tbl[i] EXCEPT !.status = "evaluated"] ELSE tbl[i]]

\* SELECT * FROM bids WHERE rfpId = ? ORDER BY amount ASC LIMIT 1: the rows
\* the statement may return (SQLite fixes no order among equal amounts)
LowestBidsDesc(tbl, rfpId) ==
  LET of == Rows(SelectBidsByRfp(tbl, rfpId))
  IN  {b \in of : \A o \in of : b.amount >= o.amount}

LowestBids(tbl, rfpId) ==
  LET of == Rows(SelectBidsByRfp(tbl, rfpId))
  IN  {b \in of : \A o \in of : b.amount <= o.amount}

(***************************************************************************)
(* dbRun, dbGet, dbAll: the driver calls the callback once, with an error  *)
(* or a value; the callback settles the promise, and the awaiting handler  *)
(* sees the first settlement.                                              *)
(***************************************************************************)
dbRun(err, value) ==
  IF err # NoErr
    THEN <<[kind |-> "reject", err |-> err]>>
    ELSE <<[kind |-> "resolve", value |-> value]>>

dbGet(err, row) ==
  IF err # NoErr
    THEN <<[kind |-> "reject", err |-> err]>>
    ELSE <<[kind |-> "resolve", value |-> row]>>

dbAll(err, rows) ==
  IF err # NoErr
    THEN <<[kind |-> "reject", err |-> err]>>
    ELSE <<[kind |-> "resolve", value |-> rows]>>

Await(settlements) == settlements[1]

\* what the driver hands the callback: an I/O failure, or the statement's result
DriverErr(ioerr, err) == IF ioerr THEN "SQLITE_IOERR" ELSE err

(***************************************************************************)
(* The app's layers in the order server.js registers them.                 *)
(***************************************************************************)
Stack ==
  << "cors", "bodyParser.json", "errorHandler",
     "POST /api/auth/register", "POST /api/auth/login",
     "POST /api/suppliers/onboard", "POST /api/bids", "POST /api/bids/evaluate",
     "GET /api/rfps", "POST /api/rfps", "GET /api/bids/winning/:rfpId" >>

\* the layers registered with four parameters (err, req, res, next)
ErrorLayers == {"errorHandler"}

LayerIndex(layer) == CHOOSE i \in 1..Len(Stack) : Stack[i] = layer

\* Express hands next(err) to the first error-handling layer registered after
\* the layer that raised it, and to its built-in final handler when none is.
ErrorLayerAfter(route) ==
  LET later == {i \in (LayerIndex(route) + 1)..Len(Stack) : Stack[i] \in ErrorLayers}
  IN  IF later = {} THEN "finalhandler"
      ELSE Stack[CHOOSE i \in later : \A j \in later : i <= j]

\* res.status(status).json(body) in a route handler
Respond(status, body) ==
  [status |-> status, body |-> body, sent |-> 1, forwarded |-> 0, handledBy |-> "route"]

\* next(error) in a route handler: the errorHandler layer answers 500 with
\* {message, error}; the final handler answers 500 with an HTML page
NextError(route, err) ==
  LET h == ErrorLayerAfter(route)
  IN  [status |-> 500,
       body |-> IF h = "errorHandler"
                  THEN [message |-> "Internal server error", error |-> err]
                  ELSE [html |-> err],
       sent |-> 0, forwarded |-> 1, handledBy |-> h]

\* the request that completed last: its route, what its handler did (responses
\* sent, errors forwarded), what the client received, and how many times each
\* of its storage operations settled
Completed(route, out, settles) ==
  [route |-> route, status |-> out.status, body |-> out.body,
   sent |-> out.sent, forwarded |-> out.forwarded, handledBy |-> out.handledBy,
   settles |-> settles]

Suspend(c) ==
  /\ BagCardinality(inflight) < MaxInFlight
  /\ inflight' = inflight (+) SetToBag({c})

Resume(c) ==
  /\ BagIn(c, inflight)
  /\ inflight' = inflight (-) SetToBag({c})

\* an INSERT that succeeds needs room in the bounded database
Room(err) == err = NoErr => RowCount < MaxRows

(***************************************************************************)
(* POST /api/auth/register: await bcrypt.hash, then await dbRun(INSERT).   *)
(***************************************************************************)
RegisterHash(name, email, password, salt) ==
  /\ Suspend([op |-> "register",
              req |-> [name |-> name, email |-> email, password |-> password],
              hashedPassword |-> BcryptHash(password, salt)])
  /\ UNCHANGED <<users, suppliers, rfps, bids, last, issued, created>>

RegisterInsert(c, ioerr) ==
  LET ins == InsertUser(users, c.req.name, c.req.email, c.hashedPassword)
      settled == dbRun(DriverErr(ioerr, ins.err), [lastID |-> ins.lastID])
      result == Await(settled)
  IN  /\ c.op = "register"
      /\ Resume(c)
      /\ Room(DriverErr(ioerr, ins.err))
      /\ IF result.kind = "resolve"
           THEN /\ users' = ins.tbl
                /\ last' = Completed("POST /api/auth/register",
                             Respond(201, [message |-> "User registered successfully",
                                           userId |-> result.value.lastID]),
                             <<Len(settled)>>)
                /\ issued' = issued \cup {[userId |-> result.value.lastID,
                                           email |-> c.req.email,
                                           password |-> c.req.password]}
           ELSE /\ last' = Completed("POST /api/auth/register",
                             NextError("POST /api/auth/register", result.err),
                             <<Len(settled)>>)
                /\ UNCHANGED <<users, issued>>
      /\ UNCHANGED <<suppliers, rfps, bids, created>>

(***************************************************************************)
(* POST /api/auth/login: await dbGet(SELECT), then await bcrypt.compare.   *)
(***************************************************************************)
InvalidCredentials == [message |-> "Invalid credentials"]

\* if (!user) { return res.status(401).json(...) }
NoUserFallsThrough ==
  [status |-> 401, body |-> InvalidCredentials, sent |-> 1, forwarded |-> 1,
   handledBy |-> "route"]

NoUserOutcome == Respond(401, InvalidCredentials)

\* if (!result) { return res.status(401).json(...) }  res.status(200).json(...)
CompareOutcome(same, user) ==
  IF ~same THEN Respond(401, InvalidCredentials)
  ELSE Respond(200, [message |-> "Login successful", userId |-> user.id])

LoginGet(email, password, ioerr) ==
  LET req == [email |-> email, password |-> password]
      settled == dbGet(DriverErr(ioerr, NoErr), SelectUserByEmail(users, email))
      result == Await(settled)
  IN  /\ IF result.kind = "reject"
           THEN /\ last' = Completed("POST /api/auth/login",
                             NextError("POST /api/auth/login", result.err),
                             <<Len(settled)>>)
                /\ UNCHANGED inflight
           ELSE IF result.value = <<>>
             THEN /\ last' = Completed("POST /api/auth/login", NoUserOutcome,
                               <<Len(settled)>>)
                  /\ UNCHANGED inflight
             ELSE /\ Suspend([op |-> "login", req |-> req, user |-> result.value[1],
                              settles |-> <<Len(settled)>>])
                  /\ UNCHANGED last
      /\ UNCHANGED <<users, suppliers, rfps, bids, issued, created>>

LoginCompare(c) ==
  /\ c.op = "login"
  /\ Resume(c)
  /\ last' = Completed("POST /api/auth/login",
               CompareOutcome(BcryptCompare(c.req.password, c.user.password), c.user),
               c.settles)
  /\ UNCHANGED <<users, suppliers, rfps, bids, issued, created>>

(***************************************************************************)
(* POST /api/suppliers/onboard                                             *)
(***************************************************************************)
Onboard(name, registrationNumber, address, ioerr) ==
  LET ins == InsertSupplier(suppliers, name, registrationNumber, address)
      settled == dbRun(DriverErr(ioerr, ins.err), [lastID |-> ins.lastID])
      result == Await(settled)
  IN  /\ Room(DriverErr(ioerr, ins.err))
      /\ IF result.kind = "resolve"
           THEN /\ suppliers' = ins.tbl
                /\ last' = Completed("POST /api/suppliers/onboard",
                             Respond(201, [message |-> "Supplier onboarded successfully",
                                           supplierId |-> result.value.lastID]),
                             <<Len(settled)>>)
           ELSE /\ last' = Completed("POST /api/suppliers/onboard",
                             NextError("POST /api/suppliers/onboard", result.err),
                             <<Len(settled)>>)
                /\ UNCHANGED suppliers
      /\ UNCHANGED <<users, rfps, bids, inflight, issued, created>>

(***************************************************************************)
(* POST /api/bids                                                          *)
(***************************************************************************)
SubmitBid(rfpId, supplierId, amount, documents, ioerr) ==
  LET ins == InsertBid(bids, rfpId, supplierId, amount, documents)
      settled == dbRun(DriverErr(ioerr, ins.err), [lastID |-> ins.lastID])
      result == Await(settled)
  IN  /\ Room(DriverErr(ioerr, ins.err))
      /\ IF result.kind = "resolve"
           THEN /\ bids' = ins.tbl
                /\ last' = Completed("POST /api/bids",
                             Respond(201, [message |-> "Bid submitted successfully",
                                           bidId |-> result.value.lastID]),
                             <<Len(settled)>>)
           ELSE /\ last' = Completed("POST /api/bids",
                             NextError("POST /api/bids", result.err),
                             <<Len(settled)>>)
                /\ UNCHANGED bids
      /\ UNCHANGED <<users, suppliers, rfps, inflight, issued, created>>

(***************************************************************************)
(* POST /api/bids/evaluate: await dbAll(SELECT), then await dbRun(UPDATE). *)
(* Of the rows it fetched the handler reads only their number; the         *)
(* suspended handler is kept with the ids of those rows.                   *)
(***************************************************************************)
EvaluatedCountFromUpdate(fetched, changes) == changes

\* evaluatedBidsCount: bids.length
EvaluatedCount(fetched, changes) == Len(fetched)

EvaluateFetch(rfpId, ioerr) ==
  LET req == [rfpId |-> rfpId]
      rows == SelectBidsByRfp(bids, rfpId)
      settled == dbAll(DriverErr(ioerr, NoErr), [i \in 1..Len(rows) |-> rows[i].id])
      result == Await(settled)
  IN  /\ IF result.kind = "reject"
           THEN /\ last' = Completed("POST /api/bids/evaluate",
                             NextError("POST /api/bids/evaluate", result.err),
                             <<Len(settled)>>)
                /\ UNCHANGED inflight
           ELSE /\ Suspend([op |-> "evaluate", req |-> req, bids |-> result.value,
                            settles |-> <<Len(settled)>>])
                /\ UNCHANGED last
      /\ UNCHANGED <<users, suppliers, rfps, bids, issued, created>>

EvaluateUpdate(c, ioerr) ==
  LET updated == UpdateStatus(bids, c.req.rfpId)
      changes == Len(SelectBidsByRfp(bids, c.req.rfpId))
      settled == dbRun(DriverErr(ioerr, NoErr), [changes |-> changes])
      result == Await(settled)
  IN  /\ c.op = "evaluate"
      /\ Resume(c)
      /\ IF result.kind = "resolve"
           THEN /\ bids' = updated
                /\ last' = Completed("POST /api/bids/evaluate",
                             Respond(200, [message |-> "Bids evaluated successfully",
                                           evaluatedBidsCount |->
                                             EvaluatedCount(c.bids, result.value.changes)]),
                             c.settles \o <<Len(settled)>>)
           ELSE /\ last' = Completed("POST /api/bids/evaluate",
                             NextError("POST /api/bids/evaluate", result.err),
                             c.settles \o <<Len(settled)>>)
                /\ UNCHANGED bids
      /\ UNCHANGED <<users, suppliers, rfps, issued, created>>

(***************************************************************************)
(* GET /api/rfps and POST /api/rfps                                        *)
(***************************************************************************)
ListRfps(ioerr) ==
  LET settled == dbAll(DriverErr(ioerr, NoErr), SelectAllRfps(rfps))
      result == Await(settled)
  IN  /\ last' = Completed("GET /api/rfps",
                   IF result.kind = "resolve"
                     THEN Respond(200, [rfps |-> result.value])
                     ELSE NextError("GET /api/rfps", result.err),
                   <<Len(settled)>>)
      /\ UNCHANGED <<users, suppliers, rfps, bids, inflight, issued, created>>

CreateRfp(title, description, ioerr) ==
  LET ins == InsertRfp(rfps, title, description)
      settled == dbRun(DriverErr(ioerr, ins.err), [lastID |-> ins.lastID])
      result == Await(settled)
  IN  /\ Room(DriverErr(ioerr, ins.err))
      /\ IF result.kind = "resolve"
           THEN /\ rfps' = ins.tbl
                /\ last' = Completed("POST /api/rfps",
                             Respond(201, [message |-> "RFP created successfully",
                                           rfpId |-> result.value.lastID]),
                             <<Len(settled)>>)
                /\ created' = created \cup {[rfpId |-> result.value.lastID,
                                             title |-> title,
                                             description |-> description]}
           ELSE /\ last' = Completed("POST /api/rfps",
                             NextError("POST /api/rfps", result.err),
                             <<Len(settled)>>)
                /\ UNCHANGED <<rfps, created>>
      /\ UNCHANGED <<users, suppliers, bids, inflight, issued>>

(***************************************************************************)
(* GET /api/bids/winning/:rfpId                                            *)
(***************************************************************************)
\* if (!winningBid) { return res.status(404).json(...) }  res.status(200).json(...)
WinningOutcome(row) ==
  IF row = <<>> THEN Respond(404, [message |-> "No bids found for this RFP"])
  ELSE Respond(200, [winningBid |-> row[1]])

WinningBid(rfpId, ioerr) ==
  \E row \in IF LowestBids(bids, rfpId) = {} THEN {<<>>}
             ELSE {<<b>> : b \in LowestBids(bids, rfpId)} :
    LET settled == dbGet(DriverErr(ioerr, NoErr), row)
        result == Await(settled)
    IN  /\ last' = Completed("GET /api/bids/winning/:rfpId",
                     IF result.kind = "resolve"
                       THEN WinningOutcome(result.value)
                       ELSE NextError("GET /api/bids/winning/:rfpId", result.err),
                     <<Len(settled)>>)
        /\ UNCHANGED <<users, suppliers, rfps, bids, inflight, issued, created>>

(***************************************************************************)
(* The server after start-up, on a fresh database file.                    *)
(***************************************************************************)
Init ==
  /\ users = <<>>
  /\ suppliers = <<>>
  /\ rfps = <<>>
  /\ bids = <<>>
  /\ inflight = EmptyBag
  /\ last = [route |-> "none", status |-> 0,
             body |-> [none |-> TRUE], sent |-> 0, forwarded |-> 0,
             handledBy |-> "none", settles |-> <<>>]
  /\ issued = {}
  /\ created = {}

Next ==
  \/ \E n \in Names, e \in Emails, p \in Passwords, s \in Salts : RegisterHash(n, e, p, s)
  \/ \E c \in BagToSet(inflight), ioerr \in BOOLEAN : RegisterInsert(c, ioerr)
  \/ \E e \in Emails, p \in Passwords, ioerr \in BOOLEAN : LoginGet(e, p, ioerr)
  \/ \E c \in BagToSet(inflight) : LoginCompare(c)
  \/ \E n \in Names, r \in RegNumbers, a \in Addresses, ioerr \in BOOLEAN :
       Onboard(n, r, a, ioerr)
  \/ \E r \in RfpIds, s \in SupplierIds, a \in Amounts, d \in Documents, ioerr \in BOOLEAN :
       SubmitBid(r, s, a, d, ioerr)
  \/ \E r \in RfpIds, ioerr \in BOOLEAN : EvaluateFetch(r, ioerr)
  \/ \E c \in BagToSet(inflight), ioerr \in BOOLEAN : EvaluateUpdate(c, ioerr)
  \/ \E ioerr \in BOOLEAN : ListRfps(ioerr)
  \/ \E t \in Titles, d \in Descriptions, ioerr \in BOOLEAN : CreateRfp(t, d, ioerr)
  \/ \E r \in RfpIds, ioerr \in BOOLEAN : WinningBid(r, ioerr)

\* the routes over the users table
NextAuth ==
  \/ \E n \in Names, e \in Emails, p \in Passwords, s \in Salts : RegisterHash(n, e, p, s)
  \/ \E c \in BagToSet(inflight), ioerr \in BOOLEAN : RegisterInsert(c, ioerr)
  \/ \E e \in Emails, p \in Passwords, ioerr \in BOOLEAN : LoginGet(e, p, ioerr)
  \/ \E c \in BagToSet(inflight) : LoginCompare(c)

\* the routes over the suppliers, rfps and bids tables
NextBids ==
  \/ \E n \in Names, r \in RegNumbers, a \in Addresses, ioerr \in BOOLEAN :
       Onboard(n, r, a, ioerr)
  \/ \E r \in RfpIds, s \in SupplierIds, a \in Amounts, d \in Documents, ioerr \in BOOLEAN :
       SubmitBid(r, s, a, d, ioerr)
  \/ \E r \in RfpIds, ioerr \in BOOLEAN : EvaluateFetch(r, ioerr)
  \/ \E c \in BagToSet(inflight), ioerr \in BOOLEAN : EvaluateUpdate(c, ioerr)
  \/ \E ioerr \in BOOLEAN : ListRfps(ioerr)
  \/ \E t \in Titles, d \in Descriptions, ioerr \in BOOLEAN : CreateRfp(t, d, ioerr)
  \/ \E r \in RfpIds, ioerr \in BOOLEAN : WinningBid(r, ioerr)

Spec == Init /\ [][Next]_vars
SpecAuth == Init /\ [][NextAuth]_vars
SpecBids == Init /\ [][NextBids]_vars

(***************************************************************************)
(* Vocabulary of the properties.                                           *)
(***************************************************************************)
REGISTER == "POST /api/auth/register"
LOGIN == "POST /api/auth/login"
EVALUATE == "POST /api/bids/evaluate"
LIST_RFPS == "GET /api/rfps"
WINNING == "GET /api/bids/winning/:rfpId"

Suspended == BagToSet(inflight)
EmailStored(e) == \E r \in Rows(users) : r.email = e
BidIdsOf(tbl, rfpId) == {tbl[i].id : i \in {j \in 1..Len(tbl) : tbl[j].rfpId = rfpId}}
Fetched(c) == {c.bids[i] : i \in 1..Len(c.bids)}

(***************************************************************************)
(* C1: no two user rows share an email; a registration whose INSERT meets  *)
(* no storage failure answers 201 with a positive userId when the email is *)
(* not stored yet, and every registration of a stored email is forwarded,  *)
(* answered 500, and leaves the users table as it was.                     *)
(***************************************************************************)
C1_EmailsDistinct ==
  \A i, j \in 1..Len(users) : i # j => users[i].email # users[j].email

C1_RegisterStep ==
  \A c \in Suspended, ioerr \in BOOLEAN :
    RegisterInsert(c, ioerr) =>
      IF EmailStored(c.req.email)
        THEN last'.status = 500 /\ last'.sent = 0 /\ users' = users
        ELSE ~ioerr =>
               /\ last'.status = 201
               /\ last'.body.userId \in Nat \ {0}
               /\ Len(users') = Len(users) + 1
               /\ users'[Len(users')].id = last'.body.userId
               /\ users'[Len(users')].email = c.req.email

\* C1: emails stay distinct, and each registration INSERT answers as above
C1_UniqueEmail == []C1_EmailsDistinct /\ [][C1_RegisterStep]_vars

C1_Witness ==
  /\ last.route = REGISTER
  /\ last.status = 500
  /\ last.body = [html |-> "SQLITE_CONSTRAINT: UNIQUE constraint failed: users.email"]
  /\ \E c \in Suspended : c.op = "register" /\ EmailStored(c.req.email)

(***************************************************************************)
(* C2, as the claim states it: a login that meets no storage failure       *)
(* answers 200 with the userId issued at registration exactly when the     *)
(* email is stored and the password is the plaintext that registration     *)
(* was given, and otherwise answers 401 {message: 'Invalid credentials'}.  *)
(***************************************************************************)
C2_LoginAnswer(email, password) ==
  IF \E u \in issued : u.email = email /\ u.password = password
    THEN /\ last'.status = 200
         /\ \E u \in issued : /\ u.email = email
                              /\ u.password = password
                              /\ last'.body.userId = u.userId
    ELSE /\ last'.status = 401
         /\ last'.body = InvalidCredentials

C2_LoginStep ==
  /\ \A e \in Emails, p \in Passwords :
       (LoginGet(e, p, FALSE) /\ inflight' = inflight) => C2_LoginAnswer(e, p)
  /\ \A c \in Suspended :
       LoginCompare(c) => C2_LoginAnswer(c.req.email, c.req.password)

\* C2: every login answers as the claim states
C2_ExactPlaintext == [][C2_LoginStep]_vars

(***************************************************************************)
(* C3: a winning-bid request that meets no storage failure answers 404     *)
(* exactly when the RFP has no bid, and otherwise answers 200 with a bid   *)
(* of that RFP whose amount no bid of that RFP is below, whatever the      *)
(* statuses of the bids.                                                   *)
(***************************************************************************)
C3_WinningStep ==
  \A r \in RfpIds :
    WinningBid(r, FALSE) =>
      LET of == Rows(SelectBidsByRfp(bids, r))
      IN  /\ last'.status = 404 <=> of = {}
          /\ of # {} =>
               /\ last'.status = 200
               /\ last'.body.winningBid \in of
               /\ \A o \in of : last'.body.winningBid.amount <= o.amount

\* C3: every winning-bid request answers 404 or the lowest bid, as above
C3_LowestWins == [][C3_WinningStep]_vars

C3_Witness ==
  /\ last.route = WINNING
  /\ last.status = 200
  /\ last.body.winningBid.status = "pending"
  /\ \E o \in Rows(bids) : /\ o.rfpId = last.body.winningBid.rfpId
                           /\ o.id < last.body.winningBid.id
                           /\ o.amount > last.body.winningBid.amount

(***************************************************************************)
(* C4: an evaluation that meets no storage failure, with no bid of its RFP *)
(* committed between its fetch and its update, answers 200 with            *)
(* evaluatedBidsCount = N, the number of bids of the RFP, and leaves all N *)
(* 'evaluated'; run on an RFP whose bids are all 'evaluated' already, it   *)
(* leaves the bids table as it was and reports N again.                    *)
(***************************************************************************)
C4_EvaluateStep ==
  \A c \in Suspended :
    (EvaluateUpdate(c, FALSE) /\ Fetched(c) = BidIdsOf(bids, c.req.rfpId)) =>
      LET n == Cardinality(BidIdsOf(bids, c.req.rfpId))
      IN  /\ last'.status = 200
          /\ last'.body.evaluatedBidsCount = n
          /\ Len(bids') = Len(bids)
          /\ \A i \in 1..Len(bids) :
               bids[i].rfpId = c.req.rfpId => bids'[i].status = "evaluated"
          /\ (\A i \in 1..Len(bids) :
                bids[i].rfpId = c.req.rfpId => bids[i].status = "evaluated")
               => bids' = bids

\* C4: every undisturbed evaluation counts N, evaluates N, and repeats as a no-op
C4_CountAndIdempotence == [][C4_EvaluateStep]_vars

\* a second evaluation of the same two bids has fetched them, all
\* 'evaluated' by the first, which answered 2
C4_Witness ==
  /\ last.route = EVALUATE
  /\ last.status = 200
  /\ last.body.evaluatedBidsCount = 2
  /\ \A b \in Rows(bids) : b.status = "evaluated"
  /\ \E c \in Suspended : c.op = "evaluate" /\ Len(c.bids) = 2

(***************************************************************************)
(* C5, as the claim states it: a failure a route handler forwards with     *)
(* next(error) is answered by the errorHandler layer, 500 with the         *)
(* envelope {message, error}.                                              *)
(***************************************************************************)
C5_ForwardedGetsEnvelope ==
  last.forwarded > 0 =>
    /\ last.handledBy = "errorHandler"
    /\ last.status = 500
    /\ DOMAIN last.body = {"message", "error"}

(***************************************************************************)
(* C6, as the claim states it: every stored bid's rfpId is the id of a     *)
(* stored RFP and its supplierId the id of a stored supplier.              *)
(***************************************************************************)
C6_BidsReferToStoredRows ==
  \A b \in Rows(bids) :
    /\ \E r \in Rows(rfps) : r.id = b.rfpId
    /\ \E r \in Rows(suppliers) : r.id = b.supplierId

(***************************************************************************)
(* C7: no step removes or alters an RFP row, and every listing that meets  *)
(* no storage failure answers 200 with, for each RFP created so far,       *)
(* exactly one row carrying the rfpId that creation returned, and that row *)
(* carries the title and description it was created with.                  *)
(***************************************************************************)
C7_RfpStep ==
  /\ Len(rfps') >= Len(rfps)
  /\ \A i \in 1..Len(rfps) : rfps'[i] = rfps[i]
  /\ ListRfps(FALSE) =>
       /\ last'.status = 200
       /\ \A r \in created :
            LET at == {i \in 1..Len(last'.body.rfps) : last'.body.rfps[i].id = r.rfpId}
            IN  /\ Cardinality(at) = 1
                /\ \A i \in at : /\ last'.body.rfps[i].title = r.title
                                 /\ last'.body.rfps[i].description = r.description

\* C7: RFP rows are permanent and every listing shows each created RFP once
C7_CreatedRfpListedOnce == [][C7_RfpStep]_vars

C7_Witness ==
  /\ last.route = LIST_RFPS
  /\ last.status = 200
  /\ Len(last.body.rfps) = 2
  /\ last.body.rfps[1].title # last.body.rfps[2].title
  /\ Cardinality(created) = 2

(***************************************************************************)
(* C8, as the claim states it: a bid of the RFP committed between the      *)
(* fetch and the update of an evaluation ends either included (counted in  *)
(* evaluatedBidsCount and set to 'evaluated') or excluded (not counted and *)
(* left 'pending').                                                        *)
(***************************************************************************)
Between(c) == BidIdsOf(bids, c.req.rfpId) \ Fetched(c)

C8_IncludedOrExcludedStep ==
  \A c \in Suspended :
    (EvaluateUpdate(c, FALSE) /\ Between(c) # {}) =>
      \/ /\ last'.body.evaluatedBidsCount = Cardinality(BidIdsOf(bids, c.req.rfpId))
         /\ \A b \in Between(c) : bids'[b].status = "evaluated"
      \/ /\ last'.body.evaluatedBidsCount = Len(c.bids)
         /\ \A b \in Between(c) : bids'[b].status = "pending"

\* C8 as stated: a bid committed between fetch and update is included or excluded
C8_IncludedOrExcluded == [][C8_IncludedOrExcludedStep]_vars

(***************************************************************************)
(* C8 amended: a bid of the RFP committed between the fetch and the update *)
(* of an evaluation is never counted in evaluatedBidsCount, which is the   *)
(* number of bids fetched, and is always set to 'evaluated'.               *)
(***************************************************************************)
C8_BetweenStep ==
  \A c \in Suspended :
    EvaluateUpdate(c, FALSE) =>
      /\ last'.body.evaluatedBidsCount = Cardinality(Fetched(c))
      /\ \A b \in Between(c) : bids'[b].status = "evaluated"

\* C8 amended: a bid committed between fetch and update is evaluated, not counted
C8_BetweenEvaluatedNotCounted == [][C8_BetweenStep]_vars

\* two bids of RFP 1, both 'evaluated', and the evaluation that completed
\* last counted one: the other was committed after its fetch
C8_Witness ==
  /\ last.route = EVALUATE
  /\ last.status = 200
  /\ last.body.evaluatedBidsCount = 1
  /\ Len(bids) = 2
  /\ \A b \in Rows(bids) : b.rfpId = 1 /\ b.status = "evaluated"

(***************************************************************************)
(* C9: a step never removes a bid row; it changes an existing bid row only *)
(* when it is the update of an evaluation of that row's RFP, and then only *)
(* the status; a status is 'pending' or 'evaluated' and never goes back    *)
(* from 'evaluated'.                                                       *)
(***************************************************************************)
C9_StatusOk == \A b \in Rows(bids) : b.status \in {"pending", "evaluated"}

C9_BidStep ==
  /\ Len(bids') >= Len(bids)
  /\ \A i \in 1..Len(bids) :
       /\ bids'[i] = [bids[i] EXCEPT !.status = bids'[i].status]
       /\ bids[i].status = "evaluated" => bids'[i].status = "evaluated"
       /\ bids'[i] # bids[i] =>
            \E c \in Suspended, ioerr \in BOOLEAN :
              EvaluateUpdate(c, ioerr) /\ c.req.rfpId = bids[i].rfpId

\* C9: statuses are well-formed and only an evaluation changes a bid, its status only
C9_OnlyEvaluateMutatesBids == []C9_StatusOk /\ [][C9_BidStep]_vars

C9_Witness ==
  /\ Len(bids) = 2
  /\ bids[1].rfpId # bids[2].rfpId
  /\ bids[1].status = "pending"
  /\ bids[2].status = "evaluated"
  /\ last.route = EVALUATE

(***************************************************************************)
(* C10: every storage operation of a request settled exactly once, and the *)
(* handler of every completed request either sent exactly one response     *)
(* (2xx, 401 or 404) or forwarded exactly one failure, never both.         *)
(***************************************************************************)
C10_OneOutcome ==
  /\ \A c \in Suspended : c.op \in {"login", "evaluate"} =>
       \A i \in 1..Len(c.settles) : c.settles[i] = 1
  /\ last.route # "none" =>
       /\ \A i \in 1..Len(last.settles) : last.settles[i] = 1
       /\ last.sent + last.forwarded = 1
       /\ last.sent = 1 => last.status \in {200, 201, 401, 404}
       /\ last.forwarded = 1 => last.status = 500

C10_Witness ==
  /\ last.route = LOGIN
  /\ last.status = 401
  /\ last.sent = 1
  /\ last.forwarded = 0
  /\ users = <<>>
====
